---- MODULE Spec2Model ----
(***************************************************************************)
(* The intent-classification-and-routing workflow of the voice email       *)
(* agent (src/src/workflow.py) and the command line tools it starts as     *)
(* subprocesses (src/tools/email_cli.py, src/tools/rag_cli.py).            *)
(*                                                                         *)
(* A Python string is modelled as the sequence of its pieces; every piece  *)
(* is a non-empty string, so a string is empty exactly when the sequence   *)
(* is.  In a completion text every piece is either one whitespace          *)
(* character or a maximal run of non-whitespace characters.                *)
(***************************************************************************)
EXTENDS Integers, Sequences, FiniteSets, TLC

(* ------------------------------ bounds -------------------------------- *)

\* Longest completion text, in pieces.
MaxLen == 3
\* Most passages the knowledge base can match, most messages in the mailbox.
MaxItems == 4

(* ------------------------------ strings ------------------------------- *)

Whitespace == {" "}

valid_intents == {"DRAFT_EMAIL", "RETRIEVE_INFO", "MANAGE_INBOX", "READ_EMAIL", "UNKNOWN"}

\* Runs of non-whitespace characters a completion may hold.
Words == valid_intents \cup {"draft_email", "Hello"}

Pieces == Whitespace \cup Words

\* The completion texts: no two runs of non-whitespace are adjacent.
Texts ==
    UNION { { t \in [1..n -> Pieces] :
                \A i \in 1..(n - 1) : t[i] \in Whitespace \/ t[i + 1] \in Whitespace }
            : n \in 0..MaxLen }

RECURSIVE lstrip(_)
lstrip(t) ==
    IF t # <<>> /\ Head(t) \in Whitespace THEN lstrip(Tail(t)) ELSE t

RECURSIVE rstrip(_)
rstrip(t) ==
    IF t # <<>> /\ t[Len(t)] \in Whitespace
    THEN rstrip(SubSeq(t, 1, Len(t) - 1))
    ELSE t

\* Mutant: the completion is compared as it came.
strip_identity(t) == t

\* str.strip(): leading and trailing whitespace removed.
strip(t) == rstrip(lstrip(t))

(* ------------------------- the shared state --------------------------- *)

UserInputs == { <<>>, <<"Archive the last email">> }

\* process_user_input's initial_state.
initial_state(user_input) ==
    [ user_input     |-> user_input,
      intent         |-> "UNKNOWN",
      context        |-> <<>>,
      draft          |-> <<>>,
      final_response |-> <<>>,
      error          |-> <<>> ]

(* ------------------------------- JSON --------------------------------- *)

\* A JSON scalar as json.loads returns it: None or a str.
None == [ t |-> "null", v |-> "" ]
Str(x) == [ t |-> "str", v |-> x ]

\* Python's truth value of a scalar: None and "" are false.
Truthy(j) == j.t = "str" /\ j.v # ""

\* dict.get(key, default).
get(d, key, default) == IF key \in DOMAIN d THEN d[key] ELSE default

\* A text handed to json.loads: not JSON at all, a JSON array, or a JSON
\* object (with the dict it decodes to).
NotJson == [ json |-> "none" ]
JsonArray == [ json |-> "array" ]
JsonObject(d) == [ json |-> "object", obj |-> d ]

\* json.loads raises JSONDecodeError on a text that is not JSON.
json_loads(text) == [ raised |-> text.json = "none", value |-> text ]

(* --------------------------- error messages --------------------------- *)

JSONDecodeError == <<"Expecting value: line 1 column 1 (char 0)">>
AttributeError == <<"'list' object has no attribute 'get'">>
TypeError == <<"expected str, bytes or os.PathLike object, not NoneType">>

(* ----------------------- tools/email_cli.py --------------------------- *)

\* What a subprocess leaves: its return code and its standard output.
Crashed == [ returncode |-> 1, stdout |-> NotJson ]
Printed(result) == [ returncode |-> 0, stdout |-> JsonObject(result) ]

\* The ways a tool run can go: it works, the provider call fails inside the
\* command (HttpError, missing credentials), or the process dies before it
\* prints (a failed import, an argparse error).
Faults == {"none", "provider", "crash"}

MessageIds == <<"m1", "m2", "m3", "m4", "m5", "m6">>
Senders == <<"ann@x.io", "bob@x.io", "cat@x.io", "dan@x.io", "eve@x.io", "fay@x.io">>
Subjects == <<"Invoice", "Lunch", "Offer", "Report", "Sale", "Trip">>

\* The mailbox, most recent message first.
Mailbox ==
    [ i \in 1..Len(MessageIds) |->
        [ id |-> MessageIds[i], from |-> Senders[i], subject |-> Subjects[i] ] ]

\* A day of the Email Directory: how the run goes and how many messages match.
DirEnvs == [ fault : Faults, matching : 0..MaxItems ]

Min(a, b) == IF a < b THEN a ELSE b

\* list_emails: the first max_results matching messages, or the error result.
list_emails(query, max_results, env) ==
    IF env.fault = "provider"
    THEN [ status |-> "error", message |-> "Gmail API error" ]
    ELSE [ status |-> "success",
           emails |-> SubSeq(Mailbox, 1, Min(env.matching, max_results)) ]

\* label_email / archive_email: {"status": "success"}, or the error result
\* when the provider call fails, as it does for an id that names no message.
modify_email(message_id, env) ==
    IF env = "provider" \/ message_id = ""
    THEN [ status |-> "error", message |-> "Gmail API error" ]
    ELSE [ status |-> "success" ]

\* python tools/email_cli.py list --query q --max-results n
email_cli_list(query, max_results, env) ==
    IF env.fault = "crash"
    THEN Crashed
    ELSE Printed(list_emails(query, max_results, env))

\* python tools/email_cli.py label|archive --message-id id [--label name]
email_cli_modify(message_id, env) ==
    IF env = "crash" THEN Crashed ELSE Printed(modify_email(message_id, env))

\* One Email Directory call as the workflow made it, with its outcome.
DirCall(query, max_results, result) ==
    [ query |-> query, max_results |-> max_results, result |-> result ]

\* One Email Mutator call as the workflow made it, with its outcome.
MutCall(op, message_id, label, env) ==
    [ op |-> op, message_id |-> message_id, label |-> label,
      result |-> email_cli_modify(message_id, env) ]

(* ------------------------ tools/rag_cli.py ---------------------------- *)

PassageTexts == <<"Refunds within 30 days.", "Acme is a client.", "Support is 24/7.",
                  "Pricing is per seat.", "Offices in Paris.", "Founded in 2019.">>

\* The knowledge base in descending similarity to the query.
KnowledgeBase ==
    [ i \in 1..Len(PassageTexts) |-> [ id |-> i, content |-> PassageTexts[i] ] ]

RagEnvs == [ fault : Faults, matching : 0..MaxItems ]

\* search_knowledge: the match_count best passages, or the error result.
search_knowledge(query, limit, env) ==
    IF env.fault = "provider"
    THEN [ status |-> "error", message |-> "search failed" ]
    ELSE [ status |-> "success",
           results |-> SubSeq(KnowledgeBase, 1, Min(env.matching, limit)) ]

\* python tools/rag_cli.py search --query q --limit n
rag_cli_search(query, limit, env) ==
    IF env.fault = "crash"
    THEN Crashed
    ELSE Printed(search_knowledge(query, limit, env))

\* One Knowledge Retriever call as the workflow made it, with its outcome.
RagCall(query, limit, result) == [ query |-> query, limit |-> limit, result |-> result ]

(* ------------------------- Completion Engine -------------------------- *)

\* llm.invoke either raises or returns a message with a content.
LLMFailure == [ raised |-> TRUE, content |-> <<>> ]
LLMReturns(S) == { [ raised |-> FALSE, content |-> t ] : t \in S }

\* What the classification call can answer.
ClassifierOutcomes == {LLMFailure} \cup LLMReturns(Texts)

\* What a generation call (a draft, an answer) can answer: any text of at
\* most one piece, the empty text among them.
GenerationOutcomes == {LLMFailure} \cup LLMReturns({ t \in Texts : Len(t) <= 1 })

\* What the action-extraction call can answer: a text that is not JSON, JSON
\* that is no object, or an object with any of the three keys absent, null
\* or set.
Absent == [ t |-> "absent", v |-> "" ]
ActionValues == { Absent, None, Str("label"), Str("archive"), Str("delete") }
MessageIdValues == { Absent, None, Str(""), Str("m7") }
LabelNameValues == { Absent, None, Str("Work") }

Present(d) == [ k \in { k \in DOMAIN d : d[k] # Absent } |-> d[k] ]

ExtractionTexts ==
    { NotJson, JsonArray } \cup
    { JsonObject(Present([ action |-> a, message_id |-> m, label_name |-> l ])) :
        a \in ActionValues, m \in MessageIdValues, l \in LabelNameValues }

ExtractionFailure == [ raised |-> TRUE, content |-> NotJson ]
ExtractionOutcomes == {ExtractionFailure} \cup LLMReturns(ExtractionTexts)

\* One Completion Engine call: the node that made it and the passages in
\* its prompt.
LLMCall(site, context) == [ site |-> site, context |-> context ]

\* What a node leaves behind: the state, whether it raised, the calls made.
NoCalls == [ llm |-> <<>>, rag |-> <<>>, dir |-> <<>>, mut |-> <<>> ]

Returned(s, calls) == [ state |-> s, raised |-> FALSE, calls |-> calls ]
Raised(s, calls) == [ state |-> s, raised |-> TRUE, calls |-> calls ]

(* ----------------------------- classifier ----------------------------- *)

\* Mutant: a failed completion call is swallowed and the intent defaulted.
classify_intent_swallows(s, r) ==
    LET calls == [NoCalls EXCEPT !.llm = << LLMCall("classify_intent", <<>>) >>]
        intent == strip(r.content)
    IN  Returned([s EXCEPT !.intent =
                      IF ~r.raised /\ \E l \in valid_intents : intent = <<l>>
                      THEN intent[1]
                      ELSE "UNKNOWN"],
                 calls)

\* Mutant: the classifier notes the label it found in the error field.
classify_intent_notes(s, r) ==
    LET calls == [NoCalls EXCEPT !.llm = << LLMCall("classify_intent", <<>>) >>]
    IN  IF r.raised
        THEN Raised(s, calls)
        ELSE LET intent == strip(r.content)
             IN  IF \E l \in valid_intents : intent = <<l>>
                 THEN Returned([s EXCEPT !.intent = intent[1], !.error = intent], calls)
                 ELSE Returned([s EXCEPT !.intent = "UNKNOWN"], calls)

\* Mutant: the classifier answers itself when it cannot place the request.
classify_intent_answers(s, r) ==
    LET calls == [NoCalls EXCEPT !.llm = << LLMCall("classify_intent", <<>>) >>]
    IN  IF r.raised
        THEN Raised(s, calls)
        ELSE LET intent == strip(r.content)
             IN  IF \E l \in valid_intents : intent = <<l>>
                 THEN Returned([s EXCEPT !.intent = intent[1]], calls)
                 ELSE Returned([s EXCEPT !.intent = "UNKNOWN",
                                         !.final_response = <<"I did not understand.">>],
                               calls)

classify_intent(s, r) ==
    LET calls == [NoCalls EXCEPT !.llm = << LLMCall("classify_intent", <<>>) >>]
    IN  IF r.raised
        THEN Raised(s, calls)
        ELSE LET intent == strip(r.content)
             IN  Returned([s EXCEPT !.intent =
                               IF \E l \in valid_intents : intent = <<l>>
                               THEN intent[1]
                               ELSE "UNKNOWN"],
                          calls)

(* ------------------------------- router ------------------------------- *)

\* Mutant: no default branch, an unlisted intent is passed through as the key.
route_by_intent_passthrough(s) ==
    IF s.intent = "DRAFT_EMAIL" THEN "draft_email"
    ELSE IF s.intent = "RETRIEVE_INFO" THEN "retrieve_info"
    ELSE IF s.intent = "MANAGE_INBOX" THEN "manage_inbox"
    ELSE IF s.intent = "READ_EMAIL" THEN "read_email"
    ELSE IF s.intent = "UNKNOWN" THEN "handle_unknown"
    ELSE s.intent

route_by_intent(s) ==
    IF s.intent = "DRAFT_EMAIL" THEN "draft_email"
    ELSE IF s.intent = "RETRIEVE_INFO" THEN "retrieve_info"
    ELSE IF s.intent = "MANAGE_INBOX" THEN "manage_inbox"
    ELSE IF s.intent = "READ_EMAIL" THEN "read_email"
    ELSE "handle_unknown"

(* ------------------------------ handlers ------------------------------ *)

\* "\n".join and "\n\n".join of texts.
RECURSIVE join(_, _)
join(sep, texts) ==
    IF texts = <<>> THEN <<>>
    ELSE IF Len(texts) = 1 THEN texts[1]
    ELSE texts[1] \o <<sep>> \o join(sep, Tail(texts))

\* Mutant: the passages are taken last first.
contents_reversed(results) ==
    [ i \in 1..Len(results) |-> results[Len(results) + 1 - i].content ]

\* [r["content"] for r in results]
contents(results) == [ i \in 1..Len(results) |-> results[i].content ]

\* Mutant: a draft is refused when no passage was found.
draft_email_requires_context(s, renv, r) ==
    LET rag_result == rag_cli_search(s.user_input, 3, renv)
        rag_data == IF rag_result.returncode = 0
                    THEN rag_result.stdout.obj
                    ELSE [ results |-> <<>> ]
        context == contents(get(rag_data, "results", <<>>))
        searched == [NoCalls EXCEPT !.rag = << RagCall(s.user_input, 3, rag_result) >>]
        calls == [searched EXCEPT !.llm = << LLMCall("draft_email", context) >>]
    IN  IF context = <<>>
        THEN Raised(s, searched)
        ELSE IF r.raised
        THEN Raised(s, calls)
        ELSE Returned([s EXCEPT
                         !.draft = r.content,
                         !.final_response =
                             <<"I've drafted an email for you:\n\n">> \o r.content
                             \o <<"\n\nWould you like me to send it or make changes?">>],
                      calls)

draft_email(s, renv, r) ==
    LET rag_result == rag_cli_search(s.user_input, 3, renv)
        rag_data == IF rag_result.returncode = 0
                    THEN rag_result.stdout.obj
                    ELSE [ results |-> <<>> ]
        context == contents(get(rag_data, "results", <<>>))
        searched == [NoCalls EXCEPT !.rag = << RagCall(s.user_input, 3, rag_result) >>]
        calls == [searched EXCEPT !.llm = << LLMCall("draft_email", context) >>]
    IN  IF rag_result.returncode = 0 /\ json_loads(rag_result.stdout).raised
        THEN Raised(s, searched)
        ELSE IF r.raised
        THEN Raised(s, calls)
        ELSE Returned([s EXCEPT
                         !.draft = r.content,
                         !.final_response =
                             <<"I've drafted an email for you:\n\n">> \o r.content
                             \o <<"\n\nWould you like me to send it or make changes?">>],
                      calls)

\* Mutant: the answer is asked for whether or not a passage was found.
retrieve_info_always_asks(s, renv, r) ==
    LET rag_result == rag_cli_search(s.user_input, 5, renv)
        rag_data == IF rag_result.returncode = 0
                    THEN rag_result.stdout.obj
                    ELSE [ results |-> <<>> ]
        results == get(rag_data, "results", <<>>)
        calls == [NoCalls EXCEPT
                    !.rag = << RagCall(s.user_input, 5, rag_result) >>,
                    !.llm = << LLMCall("retrieve_info", contents(results)) >>]
    IN  IF r.raised
        THEN Raised(s, calls)
        ELSE IF Len(results) > 0
        THEN Returned([s EXCEPT !.final_response = r.content], calls)
        ELSE Returned([s EXCEPT !.final_response =
                          <<"I couldn't find relevant information in the knowledge base for that question.">>],
                      calls)

\* Mutant: rag_data["results"] instead of rag_data.get("results"): the error
\* result of the tool, which has no such key, raises KeyError.
retrieve_info_indexes(s, renv, r) ==
    LET rag_result == rag_cli_search(s.user_input, 5, renv)
        rag_data == IF rag_result.returncode = 0
                    THEN rag_result.stdout.obj
                    ELSE [ results |-> <<>> ]
        results == get(rag_data, "results", <<>>)
        searched == [NoCalls EXCEPT !.rag = << RagCall(s.user_input, 5, rag_result) >>]
        calls == [searched EXCEPT
                    !.llm = << LLMCall("retrieve_info", contents(results)) >>]
    IN  IF "results" \notin DOMAIN rag_data
        THEN Raised(s, searched)
        ELSE IF Len(results) > 0
        THEN IF r.raised
             THEN Raised(s, calls)
             ELSE Returned([s EXCEPT !.final_response = r.content], calls)
        ELSE Returned([s EXCEPT !.final_response =
                          <<"I couldn't find relevant information in the knowledge base for that question.">>],
                      searched)

\* Mutant: the answer is also kept as a draft.
retrieve_info_drafts(s, renv, r) ==
    LET rag_result == rag_cli_search(s.user_input, 5, renv)
        rag_data == IF rag_result.returncode = 0
                    THEN rag_result.stdout.obj
                    ELSE [ results |-> <<>> ]
        results == get(rag_data, "results", <<>>)
        searched == [NoCalls EXCEPT !.rag = << RagCall(s.user_input, 5, rag_result) >>]
        calls == [searched EXCEPT
                    !.llm = << LLMCall("retrieve_info", contents(results)) >>]
    IN  IF Len(results) > 0
        THEN IF r.raised
             THEN Raised(s, calls)
             ELSE Returned([s EXCEPT !.final_response = r.content,
                                     !.draft = r.content], calls)
        ELSE Returned([s EXCEPT !.final_response =
                          <<"I couldn't find relevant information in the knowledge base for that question.">>],
                      searched)

\* Mutant: the answer is trimmed before it becomes the response.
retrieve_info_strips(s, renv, r) ==
    LET rag_result == rag_cli_search(s.user_input, 5, renv)
        rag_data == IF rag_result.returncode = 0
                    THEN rag_result.stdout.obj
                    ELSE [ results |-> <<>> ]
        results == get(rag_data, "results", <<>>)
        searched == [NoCalls EXCEPT !.rag = << RagCall(s.user_input, 5, rag_result) >>]
        calls == [searched EXCEPT
                    !.llm = << LLMCall("retrieve_info", contents(results)) >>]
    IN  IF Len(results) > 0
        THEN IF r.raised
             THEN Raised(s, calls)
             ELSE Returned([s EXCEPT !.final_response = strip(r.content)], calls)
        ELSE Returned([s EXCEPT !.final_response =
                          <<"I couldn't find relevant information in the knowledge base for that question.">>],
                      searched)

retrieve_info(s, renv, r) ==
    LET rag_result == rag_cli_search(s.user_input, 5, renv)
        rag_data == IF rag_result.returncode = 0
                    THEN rag_result.stdout.obj
                    ELSE [ results |-> <<>> ]
        results == get(rag_data, "results", <<>>)
        searched == [NoCalls EXCEPT !.rag = << RagCall(s.user_input, 5, rag_result) >>]
        calls == [searched EXCEPT
                    !.llm = << LLMCall("retrieve_info", contents(results)) >>]
    IN  IF rag_result.returncode = 0 /\ json_loads(rag_result.stdout).raised
        THEN Raised(s, searched)
        ELSE IF Len(results) > 0
        THEN IF r.raised
             THEN Raised(s, calls)
             ELSE Returned([s EXCEPT !.final_response = r.content], calls)
        ELSE Returned([s EXCEPT !.final_response =
                          <<"I couldn't find relevant information in the knowledge base for that question.">>],
                      searched)

\* Mutant: the except clause answers but records no error.
inbox_error_unrecorded(s, e, calls) ==
    Returned([s EXCEPT
                !.final_response = <<"I encountered an error while managing your inbox.">>],
             calls)

\* The except clause of manage_inbox.
inbox_error(s, e, calls) ==
    Returned([s EXCEPT
                !.error = e,
                !.final_response = <<"I encountered an error while managing your inbox.">>],
             calls)

\* Mutant: the archive branch is missing, archive falls to the else branch.
inbox_dispatch_no_archive(s, action_data, message_id, menv, calls) ==
    LET action == get(action_data, "action", None)
    IN  IF action = Str("label")
        THEN LET label_name == get(action_data, "label_name", Str("Important"))
             IN  IF message_id.t # "str" \/ label_name.t # "str"
                 THEN inbox_error(s, TypeError, calls)
                 ELSE Returned(
                        [s EXCEPT !.final_response =
                            <<"I've labeled the email with '", label_name.v, "'.">>],
                        [calls EXCEPT !.mut =
                            << MutCall("label", message_id.v, label_name.v, menv) >>])
        ELSE Returned(
               [s EXCEPT !.final_response =
                   <<"I'm not sure how to handle that inbox management request.">>],
               calls)

\* Mutant: the identifier is formatted into the command line, so a missing
\* one reaches the tool as the text "None".
inbox_dispatch_formats_id(s, action_data, message_id, menv, calls) ==
    LET action == get(action_data, "action", None)
        id == IF message_id.t = "str" THEN message_id.v ELSE "None"
    IN  IF action = Str("label")
        THEN LET label_name == get(action_data, "label_name", Str("Important"))
             IN  IF label_name.t # "str"
                 THEN inbox_error(s, TypeError, calls)
                 ELSE Returned(
                        [s EXCEPT !.final_response =
                            <<"I've labeled the email with '", label_name.v, "'.">>],
                        [calls EXCEPT !.mut =
                            << MutCall("label", id, label_name.v, menv) >>])
        ELSE IF action = Str("archive")
        THEN Returned(
               [s EXCEPT !.final_response = <<"I've archived the email.">>],
               [calls EXCEPT !.mut = << MutCall("archive", id, "", menv) >>])
        ELSE Returned(
               [s EXCEPT !.final_response =
                   <<"I'm not sure how to handle that inbox management request.">>],
               calls)

\* Mutant: an action that is neither label nor archive is passed on to the
\* Email Mutator as it is.
inbox_dispatch_passes_on(s, action_data, message_id, menv, calls) ==
    LET action == get(action_data, "action", None)
    IN  IF action = Str("label")
        THEN LET label_name == get(action_data, "label_name", Str("Important"))
             IN  IF message_id.t # "str" \/ label_name.t # "str"
                 THEN inbox_error(s, TypeError, calls)
                 ELSE Returned(
                        [s EXCEPT !.final_response =
                            <<"I've labeled the email with '", label_name.v, "'.">>],
                        [calls EXCEPT !.mut =
                            << MutCall("label", message_id.v, label_name.v, menv) >>])
        ELSE IF action = Str("archive")
        THEN IF message_id.t # "str"
             THEN inbox_error(s, TypeError, calls)
             ELSE Returned(
                    [s EXCEPT !.final_response = <<"I've archived the email.">>],
                    [calls EXCEPT !.mut =
                        << MutCall("archive", message_id.v, "", menv) >>])
        ELSE IF action.t = "str" /\ message_id.t = "str"
        THEN Returned(
               [s EXCEPT !.final_response =
                   <<"I'm not sure how to handle that inbox management request.">>],
               [calls EXCEPT !.mut =
                   << MutCall(action.v, message_id.v, "", menv) >>])
        ELSE Returned(
               [s EXCEPT !.final_response =
                   <<"I'm not sure how to handle that inbox management request.">>],
               calls)

\* The if/elif/else on action in manage_inbox, with message_id settled.
inbox_dispatch(s, action_data, message_id, menv, calls) ==
    LET action == get(action_data, "action", None)
    IN  IF action = Str("label")
        THEN LET label_name == get(action_data, "label_name", Str("Important"))
             IN  IF message_id.t # "str" \/ label_name.t # "str"
                 THEN inbox_error(s, TypeError, calls)
                 ELSE Returned(
                        [s EXCEPT !.final_response =
                            <<"I've labeled the email with '", label_name.v, "'.">>],
                        [calls EXCEPT !.mut =
                            << MutCall("label", message_id.v, label_name.v, menv) >>])
        ELSE IF action = Str("archive")
        THEN IF message_id.t # "str"
             THEN inbox_error(s, TypeError, calls)
             ELSE Returned(
                    [s EXCEPT !.final_response = <<"I've archived the email.">>],
                    [calls EXCEPT !.mut =
                        << MutCall("archive", message_id.v, "", menv) >>])
        ELSE Returned(
               [s EXCEPT !.final_response =
                   <<"I'm not sure how to handle that inbox management request.">>],
               calls)

manage_inbox(s, r, denv, menv) ==
    LET asked == [NoCalls EXCEPT !.llm = << LLMCall("manage_inbox", <<>>) >>]
    IN  IF r.raised
        THEN Raised(s, asked)
        ELSE IF json_loads(r.content).raised
        THEN inbox_error(s, JSONDecodeError, asked)
        ELSE IF r.content.json # "object"
        THEN inbox_error(s, AttributeError, asked)
        ELSE LET action_data == r.content.obj
                 message_id == get(action_data, "message_id", None)
             IN  IF Truthy(message_id)
                 THEN inbox_dispatch(s, action_data, message_id, menv, asked)
                 ELSE LET list_result == email_cli_list("", 1, denv)
                          listed == [asked EXCEPT !.dir = << DirCall("", 1, list_result) >>]
                      IN  IF json_loads(list_result.stdout).raised
                          THEN inbox_error(s, JSONDecodeError, listed)
                          ELSE LET emails == get(list_result.stdout.obj, "emails", <<>>)
                               IN  inbox_dispatch(
                                     s, action_data,
                                     IF Len(emails) > 0 THEN Str(emails[1].id)
                                                        ELSE message_id,
                                     menv, listed)

\* f"From {email['from']}: {email['subject']}"
summary(email) == << "From ", email.from, ": ", email.subject >>

\* Mutant: every listed message is summarised, not the first three.
read_email_unsliced(s, denv) ==
    LET list_result == email_cli_list("is:unread", 5, denv)
        list_data == IF list_result.returncode = 0
                     THEN list_result.stdout.obj
                     ELSE [ emails |-> <<>> ]
        emails == get(list_data, "emails", <<>>)
        calls == [NoCalls EXCEPT !.dir = << DirCall("is:unread", 5, list_result) >>]
    IN  IF Len(emails) > 0
        THEN Returned([s EXCEPT !.final_response =
                          <<"Here are your recent unread emails:\n\n">>
                          \o join("\n", [ i \in 1..Len(emails) |-> summary(emails[i]) ])],
                      calls)
        ELSE Returned([s EXCEPT !.final_response = <<"You have no unread emails.">>],
                      calls)

\* Mutant: the summary of the unread messages is asked of the Completion
\* Engine as well.
read_email_asks(s, denv) ==
    LET list_result == email_cli_list("is:unread", 5, denv)
        list_data == IF list_result.returncode = 0
                     THEN list_result.stdout.obj
                     ELSE [ emails |-> <<>> ]
        emails == get(list_data, "emails", <<>>)
        first == SubSeq(emails, 1, Min(Len(emails), 3))
        calls == [NoCalls EXCEPT
                    !.dir = << DirCall("is:unread", 5, list_result) >>,
                    !.llm = << LLMCall("read_email", <<>>) >>]
    IN  IF Len(emails) > 0
        THEN Returned([s EXCEPT !.final_response =
                          <<"Here are your recent unread emails:\n\n">>
                          \o join("\n", [ i \in 1..Len(first) |-> summary(first[i]) ])],
                      calls)
        ELSE Returned([s EXCEPT !.final_response = <<"You have no unread emails.">>],
                      calls)

read_email(s, denv) ==
    LET list_result == email_cli_list("is:unread", 5, denv)
        list_data == IF list_result.returncode = 0
                     THEN list_result.stdout.obj
                     ELSE [ emails |-> <<>> ]
        emails == get(list_data, "emails", <<>>)
        first == SubSeq(emails, 1, Min(Len(emails), 3))
        calls == [NoCalls EXCEPT !.dir = << DirCall("is:unread", 5, list_result) >>]
    IN  IF list_result.returncode = 0 /\ json_loads(list_result.stdout).raised
        THEN Raised(s, calls)
        ELSE IF Len(emails) > 0
        THEN Returned([s EXCEPT !.final_response =
                          <<"Here are your recent unread emails:\n\n">>
                          \o join("\n", [ i \in 1..Len(first) |-> summary(first[i]) ])],
                      calls)
        ELSE Returned([s EXCEPT !.final_response = <<"You have no unread emails.">>],
                      calls)

\* Mutant: the request that was not understood is recorded as an error.
handle_unknown_blames(s) ==
    Returned([s EXCEPT
                !.error = <<"unknown intent">>,
                !.final_response =
                    <<"I'm not sure how to help with that. Could you rephrase your request?">>],
             NoCalls)

\* Mutant: the clarification is asked of the Completion Engine.
handle_unknown_asks(s) ==
    Returned([s EXCEPT !.final_response =
                 <<"I'm not sure how to help with that. Could you rephrase your request?">>],
             [NoCalls EXCEPT !.llm = << LLMCall("handle_unknown", <<>>) >>])

handle_unknown(s) ==
    Returned([s EXCEPT !.final_response =
                 <<"I'm not sure how to help with that. Could you rephrase your request?">>],
             NoCalls)

(* ------------------------------ workflow ------------------------------ *)

\* The nodes create_workflow adds besides the classifier.
Handlers == {"draft_email", "retrieve_info", "manage_inbox", "read_email", "handle_unknown"}

\* Mutant: the draft key is wired to the inbox node.
conditional_edges_crossed ==
    [ k \in {"draft_email", "retrieve_info", "manage_inbox", "read_email", "handle_unknown"} |->
        IF k = "draft_email" THEN "manage_inbox" ELSE k ]

\* The map of add_conditional_edges: the router's key to the node it names.
conditional_edges == [ k \in Handlers |-> k ]

\* The workflow's state while a node is selected and running.
NodeState ==
    [ draft_email    |-> "DRAFTING",
      retrieve_info  |-> "RETRIEVING",
      manage_inbox   |-> "MANAGING",
      read_email     |-> "READING",
      handle_unknown |-> "UNKNOWN_HANDLING" ]

HandlerStates == { NodeState[h] : h \in Handlers }

\* Mutant: one handler's edge leads back to the entry point.
handler_edge_back(node) == IF node = "handle_unknown" THEN "START" ELSE "DONE"
\* workflow.add_edge(handler, END).
handler_edge(node) == "DONE"

(* ------------------------- the workflow as a whole -------------------- *)

\* What the collaborators answer to one run: the three completion calls and
\* the three tools.
Answer(label) ==
    [ reply      |-> [ raised |-> FALSE, content |-> <<label>> ],
      generation |-> [ raised |-> FALSE, content |-> <<"Hello">> ],
      extraction |-> [ raised |-> FALSE,
                       content |-> JsonObject([ action |-> Str("archive") ]) ],
      renv       |-> [ fault |-> "none", matching |-> 2 ],
      denv       |-> [ fault |-> "none", matching |-> 2 ],
      menv       |-> "none" ]

\* One answer per branch, and the ways a branch goes wrong.
Answers ==
    { Answer(l) : l \in valid_intents \cup {"Hello"} } \cup
    { [Answer("READ_EMAIL") EXCEPT !.reply = LLMFailure],
      [Answer("DRAFT_EMAIL") EXCEPT !.generation = LLMFailure],
      [Answer("RETRIEVE_INFO") EXCEPT !.renv = [ fault |-> "provider", matching |-> 0 ]],
      [Answer("MANAGE_INBOX") EXCEPT !.extraction = ExtractionFailure],
      [Answer("MANAGE_INBOX") EXCEPT !.extraction.content = NotJson] }

\* The node function of a handler, applied to a state.
run_node(node, s, a) ==
    CASE node = "draft_email"    -> draft_email(s, a.renv, a.generation)
      [] node = "retrieve_info"  -> retrieve_info(s, a.renv, a.generation)
      [] node = "manage_inbox"   -> manage_inbox(s, a.extraction, a.denv, a.menv)
      [] node = "read_email"     -> read_email(s, a.denv)
      [] node = "handle_unknown" -> handle_unknown(s)

\* agent_workflow.invoke on a state: the classifier, then the handler the
\* router's key names; a node that raises ends the run.
invoke(s, a) ==
    LET classified == classify_intent(s, a.reply)
    IN  IF classified.raised
        THEN classified
        ELSE run_node(conditional_edges[route_by_intent(classified.state)],
                      classified.state, a)

\* str(e) of the exception a failed completion call raises.
CompletionError == <<"Connection error.">>

(* ----------------------------- src/main.py ---------------------------- *)

\* The requests in flight at POST /api/text.
Clients == {"c1", "c2"}

\* The "text" of a request body: missing, null, or a string.
NoText == [ t |-> "absent", v |-> <<>> ]
NullText == [ t |-> "null", v |-> <<>> ]
Text(u) == [ t |-> "str", v |-> u ]
TextValues == { NoText, NullText } \cup { Text(u) : u \in UserInputs }

\* request.get("text", "")
user_text(request) == IF request.text.t = "str" THEN request.text.v ELSE <<>>

NoResponse == [ k |-> "none", text |-> <<>> ]
JsonResponse(k, text) == [ k |-> k, text |-> text ]

\* A request not yet handled, with the answers its run will get.
PendingRequests ==
    [ pc : {"IDLE"}, request : [ text : TextValues ], answers : Answers,
      state : { initial_state(<<>>) }, route : {""}, response : { NoResponse } ]

\* The sessions open at /ws/voice.
Sessions == {"s1", "s2"}

\* What the user of a session says when not silent.
Says == [ s1 |-> <<"Archive the last email">>, s2 |-> <<"Read my email">> ]

\* An audio frame: who recorded it and the words in it (none: silence).
Audio(by, says) == [ by |-> by, says |-> says ]
NoAudio == Audio("", <<>>)
AudioFrames(s) == { Audio(s, <<>>), Audio(s, Says[s]) }

\* A file under /tmp: absent, or present with its content. The content of an
\* MP3 is given by the text it speaks.
NoFile(content) == [ exists |-> FALSE, content |-> content ]
File(content) == [ exists |-> TRUE, content |-> content ]

\* /tmp/user_audio.wav and /tmp/agent_response.mp3 before any frame.
NoFiles == [ user_audio |-> NoFile(NoAudio), agent_response |-> NoFile(<<>>) ]

\* The messages of the socket: send_json with its status, message and extra
\* field, send_bytes with the audio it carries.
Json(status, message, field, body) ==
    [ type |-> "json", status |-> status, message |-> message,
      field |-> field, body |-> body ]
Bytes(audio) ==
    [ type |-> "bytes", status |-> "", message |-> <<>>, field |-> "", body |-> audio ]

Acknowledgement == Json("processing", <<"Transcribing audio...">>, "", <<>>)
Transcription(text) == Json("processing", <<"Processing request...">>, "transcription", text)
ResponseText(text) == Json("processing", <<"Generating speech...">>, "response_text", text)
Complete == Json("complete", <<"Response ready">>, "audio_size", <<>>)
Error(message) == Json("error", message, "", <<>>)
ProcessingError(e) == Error(<<"Processing error: ">> \o e)

\* str(e) of the exceptions of a frame that do not come from the workflow.
TranscriptionFailed == <<"Transcription failed: ">>
SynthesisFailed == <<"Speech synthesis failed: ">>
FileNotFoundError == <<"[Errno 2] No such file or directory: '/tmp/agent_response.mp3'">>

\* A session waiting for a frame, the locals of the loop body unset.
Waiting(sent) ==
    [ at |-> "RECEIVE", audio |-> NoAudio, user_text |-> <<>>,
      response_text |-> <<>>, sent |-> sent ]

VARIABLES
    pc,          \* where the run is: START, CLASSIFIED, a handler state, DONE, FAILED
    state,       \* the AgentState threaded through the nodes
    route,       \* the key route_by_intent returned ("" before routing)
    nodes,       \* the nodes that have run, in order
    reply,       \* the outcome of the classifier's completion call
    generation,  \* the outcome of draft_email's / retrieve_info's completion call
    extraction,  \* the outcome of manage_inbox's completion call
    llm_calls,   \* the Completion Engine calls made, in order
    rag_calls,   \* the Knowledge Retriever calls made, in order
    dir_calls,   \* the Email Directory calls made, in order
    mut_calls,   \* the Email Mutator calls made, in order
    runs,        \* the requests at POST /api/text, each with its workflow run
    ws,          \* the sessions at /ws/voice: where each is in its frame, what it sent
    tmp          \* the two files under /tmp every session stages its audio in

workflow == << pc, state, route, nodes, reply, generation, extraction,
               llm_calls, rag_calls, dir_calls, mut_calls >>

voice == << ws, tmp >>

transport == << runs, voice >>

vars == << workflow, transport >>

\* No session at /ws/voice yet.
NoVoice ==
    /\ ws = [ s \in Sessions |-> Waiting(<<>>) ]
    /\ tmp = NoFiles

\* No request at POST /api/text.
NoRequests ==
    runs = [ c \in Clients |->
               [ pc |-> "IDLE", request |-> [ text |-> NoText ],
                 answers |-> Answer("UNKNOWN"),
                 state |-> initial_state(<<>>), route |-> "",
                 response |-> NoResponse ] ]

\* Nothing at the transport: the workflow is run on its own.
NoTransport == NoRequests /\ NoVoice

\* process_user_input up to agent_workflow.invoke(initial_state).
Init ==
    /\ pc = "START"
    /\ state \in { initial_state(u) : u \in UserInputs }
    /\ route = ""
    /\ nodes = <<>>
    /\ reply = LLMFailure
    /\ generation = LLMFailure
    /\ extraction = ExtractionFailure
    /\ llm_calls = <<>>
    /\ rag_calls = <<>>
    /\ dir_calls = <<>>
    /\ mut_calls = <<>>
    /\ NoTransport

\* A node ran with result res: its calls are logged, and the run goes on to
\* `next` unless the node raised.
NodeRan(name, res, next) ==
    /\ nodes' = Append(nodes, name)
    /\ state' = res.state
    /\ llm_calls' = llm_calls \o res.calls.llm
    /\ rag_calls' = rag_calls \o res.calls.rag
    /\ dir_calls' = dir_calls \o res.calls.dir
    /\ mut_calls' = mut_calls \o res.calls.mut
    /\ pc' = IF res.raised THEN "FAILED" ELSE next
    /\ UNCHANGED transport

ClassifyIntent ==
    /\ pc = "START"
    /\ \E r \in ClassifierOutcomes :
          /\ reply' = r
          /\ NodeRan("classify_intent", classify_intent(state, r), "CLASSIFIED")
    /\ UNCHANGED << route, generation, extraction >>

\* The conditional edge out of classify_intent.
Route ==
    /\ pc = "CLASSIFIED"
    /\ route' = route_by_intent(state)
    /\ pc' = IF route' \in DOMAIN conditional_edges
             THEN NodeState[conditional_edges[route']]
             ELSE "FAILED"
    /\ UNCHANGED << state, nodes, reply, generation, extraction,
                    llm_calls, rag_calls, dir_calls, mut_calls, transport >>

DraftEmail ==
    /\ pc = "DRAFTING"
    /\ \E renv \in RagEnvs, r \in GenerationOutcomes :
          /\ generation' = r
          /\ NodeRan("draft_email", draft_email(state, renv, r),
                     handler_edge("draft_email"))
    /\ UNCHANGED << route, reply, extraction >>

RetrieveInfo ==
    /\ pc = "RETRIEVING"
    /\ \E renv \in RagEnvs, r \in GenerationOutcomes :
          /\ generation' = r
          /\ NodeRan("retrieve_info", retrieve_info(state, renv, r),
                     handler_edge("retrieve_info"))
    /\ UNCHANGED << route, reply, extraction >>

ManageInbox ==
    /\ pc = "MANAGING"
    /\ \E r \in ExtractionOutcomes, denv \in DirEnvs, menv \in Faults :
          /\ extraction' = r
          /\ NodeRan("manage_inbox", manage_inbox(state, r, denv, menv),
                     handler_edge("manage_inbox"))
    /\ UNCHANGED << route, reply, generation >>

ReadEmail ==
    /\ pc = "READING"
    /\ \E denv \in DirEnvs :
          NodeRan("read_email", read_email(state, denv), handler_edge("read_email"))
    /\ UNCHANGED << route, reply, generation, extraction >>

HandleUnknown ==
    /\ pc = "UNKNOWN_HANDLING"
    /\ NodeRan("handle_unknown", handle_unknown(state), handler_edge("handle_unknown"))
    /\ UNCHANGED << route, reply, generation, extraction >>

Next ==
    \/ ClassifyIntent
    \/ Route
    \/ DraftEmail
    \/ RetrieveInfo
    \/ ManageInbox
    \/ ReadEmail
    \/ HandleUnknown

\* One run of process_user_input.
Spec == Init /\ [][Next]_vars

(* --------------------------- the router alone ------------------------- *)

\* The values route_by_intent may be handed: the enumeration and values
\* outside it.
IntentValues == valid_intents \cup {"", "draft_email", "SEND_EMAIL"}

RouterInputs ==
    [ user_input     : UserInputs,
      intent         : IntentValues,
      context        : { <<>> },
      draft          : { <<>>, <<"Hello">> },
      final_response : { <<>>, <<"Hello">> },
      error          : { <<>>, <<"boom">> } ]

InitRoute ==
    /\ pc = "CLASSIFIED"
    /\ state \in RouterInputs
    /\ route = ""
    /\ nodes = << "classify_intent" >>
    /\ reply = LLMFailure
    /\ generation = LLMFailure
    /\ extraction = ExtractionFailure
    /\ llm_calls = << LLMCall("classify_intent", <<>>) >>
    /\ rag_calls = <<>>
    /\ dir_calls = <<>>
    /\ mut_calls = <<>>
    /\ NoTransport

\* route_by_intent applied to any state.
SpecRoute == InitRoute /\ [][Route]_vars

(* ------------------------------- claims ------------------------------- *)

FailureResponse == <<"I encountered an error while managing your inbox.">>
ArchivedResponse == <<"I've archived the email.">>
NotSureResponse == <<"I'm not sure how to handle that inbox management request.">>

\* The classifier has run and its completion call returned.
Classified == nodes # <<>> /\ ~reply.raised

\* manage_inbox has run and its completion call returned.
Managed == Len(nodes) = 2 /\ nodes[2] = "manage_inbox" /\ ~extraction.raised

\* The dict manage_inbox decoded, when the completion was a JSON object.
ManagedObject == Managed /\ extraction.content.json = "object"

\* C1: every step of a run goes START -> CLASSIFIED -> one handler -> DONE:
\* the classifier is the first node and runs once, the router then selects one
\* handler, that handler is the second and last node, and nothing follows the
\* end of the run (a node that raises ends the run where it is).
C1_Step ==
    /\ pc = "START" =>
          /\ pc' \in {"CLASSIFIED", "FAILED"}
          /\ nodes = <<>> /\ nodes' = << "classify_intent" >>
    /\ pc = "CLASSIFIED" =>
          /\ pc' \in HandlerStates
          /\ nodes' = nodes
    /\ pc \in HandlerStates =>
          /\ pc' \in {"DONE", "FAILED"}
          /\ \E h \in Handlers :
                NodeState[h] = pc /\ nodes' = << "classify_intent", h >>
    /\ pc \notin {"DONE", "FAILED"}

C1_PathOrder == [][C1_Step]_vars

C1_Witness ==
    pc = "DONE" /\ nodes = << "classify_intent", "manage_inbox" >>

\* C2: whenever a run reaches DONE, final_response is a non-empty string.
C2_DoneHasResponse == pc = "DONE" => state.final_response # <<>>

\* C3: process_user_input never ends by raising: every run that is over
\* returned a non-empty string.
C3_BoundaryNeverRaises ==
    /\ pc # "FAILED"
    /\ pc = "DONE" => state.final_response # <<>>

\* t is the label l with nothing but whitespace around it.
Padded(t, l) ==
    \E i \in 1..Len(t) :
        t[i] = l /\ \A j \in 1..Len(t) : j # i => t[j] \in Whitespace

\* C4 as claimed: every completion text that is not exactly one of the five
\* labels leaves intent UNKNOWN.
C4_ExactLabelOnly ==
    (Classified /\ \A l \in valid_intents : reply.content # <<l>>)
        => state.intent = "UNKNOWN"

\* C4 as the code has it: a completion text that is one of the five labels
\* with nothing but whitespace around it sets intent to that label, every
\* other text sets it to UNKNOWN; one completion call, and no exception.
C4_StrippedLabelOnly ==
    Classified =>
        /\ \A l \in valid_intents : Padded(reply.content, l) => state.intent = l
        /\ (\A l \in valid_intents : ~Padded(reply.content, l))
              => state.intent = "UNKNOWN"
        /\ pc # "FAILED" \/ Len(nodes) = 2
        /\ llm_calls[1] = LLMCall("classify_intent", <<>>)
        /\ \A i \in 2..Len(llm_calls) : llm_calls[i].site # "classify_intent"

C4_Witness ==
    /\ pc = "CLASSIFIED"
    /\ reply.content = << " ", "READ_EMAIL", " " >>
    /\ state.intent = "READ_EMAIL"

\* C5: when the classifier's completion call fails the run ends as a failure:
\* the classifier assigned nothing, the router was not asked, no handler ran
\* and there is no final_response.
C5_ClassifierFailurePropagates ==
    (nodes # <<>> /\ reply.raised) =>
        /\ pc = "FAILED"
        /\ nodes = << "classify_intent" >>
        /\ route = ""
        /\ state = initial_state(state.user_input)
        /\ Len(llm_calls) = 1

C5_Witness == pc = "FAILED" /\ reply.raised /\ nodes = << "classify_intent" >>

\* The dispatch table the router is to implement.
RouteTable ==
    [ DRAFT_EMAIL   |-> "draft_email",
      RETRIEVE_INFO |-> "retrieve_info",
      MANAGE_INBOX  |-> "manage_inbox",
      READ_EMAIL    |-> "read_email",
      UNKNOWN       |-> "handle_unknown" ]

\* C6: for every intent value, in or outside the enumeration, the router
\* returns the table's handler (handle_unknown outside the enumeration), the
\* key is one of the conditional-edge map, and the state and the call logs are
\* as before.
C6_Step ==
    pc = "CLASSIFIED" =>
        /\ route' = IF state.intent \in DOMAIN RouteTable
                    THEN RouteTable[state.intent]
                    ELSE "handle_unknown"
        /\ route' \in DOMAIN conditional_edges
        /\ pc' = NodeState[route']
        /\ state' = state
        /\ << llm_calls, rag_calls, dir_calls, mut_calls >>' =
              << llm_calls, rag_calls, dir_calls, mut_calls >>

C6_RouterTotal == [][C6_Step]_vars

C6_Witness ==
    /\ pc = "UNKNOWN_HANDLING"
    /\ route = "handle_unknown"
    /\ state.intent = "SEND_EMAIL"

\* The tool run of a Mutator call did not report success.
MutationFailed(call) ==
    \/ call.result.returncode # 0
    \/ call.result.stdout.obj.status # "success"

\* C7: a run in which an Email Mutator operation failed ends with the generic
\* failure response and a recorded error.
C7_FailedMutationReported ==
    (pc = "DONE" /\ \E i \in 1..Len(mut_calls) : MutationFailed(mut_calls[i])) =>
        /\ state.final_response = FailureResponse
        /\ state.error # <<>>

\* C8: when the action-extraction completion is not JSON, manage_inbox returns
\* normally with error set and the fixed failure response, and has called
\* neither the Email Directory nor the Email Mutator.
C8_MalformedExtraction ==
    (Managed /\ extraction.content.json = "none") =>
        /\ pc = "DONE"
        /\ state.error # <<>>
        /\ state.final_response = FailureResponse
        /\ dir_calls = <<>>
        /\ mut_calls = <<>>

C8_Witness ==
    /\ Managed
    /\ extraction.content = NotJson
    /\ state.final_response = FailureResponse

\* The message_id manage_inbox extracted (None when the key is absent or null).
ExtractedId == get(extraction.content.obj, "message_id", None)

ExtractedAction == get(extraction.content.obj, "action", None)

\* The messages of the listing manage_inbox got from the Email Directory:
\* none when the run printed no JSON or printed the error result.
Listed ==
    LET out == dir_calls[1].result.stdout
    IN  IF out.json = "object" /\ "emails" \in DOMAIN out.obj
        THEN out.obj.emails
        ELSE <<>>

\* C9: with no message_id extracted (absent, null or empty) manage_inbox asks
\* the Email Directory once, for the empty filter, and acts on the first
\* message listed; with a message_id extracted it does not ask the Directory
\* and acts on that id.  With action=archive and an identifier to act on, the
\* Email Mutator's archive is called exactly once, with that identifier, and
\* final_response is "I've archived the email.".
C9_ArchiveResolvedId ==
    ManagedObject =>
        /\ ExtractedId \in { None, Str("") } =>
              /\ Len(dir_calls) = 1
              /\ dir_calls[1].query = "" /\ dir_calls[1].max_results = 1
              /\ (ExtractedAction = Str("archive") /\ Listed # <<>>) =>
                    /\ pc = "DONE"
                    /\ Len(mut_calls) = 1
                    /\ mut_calls[1].op = "archive"
                    /\ mut_calls[1].message_id = Listed[1].id
                    /\ state.final_response = ArchivedResponse
        /\ ExtractedId \notin { None, Str("") } =>
              /\ dir_calls = <<>>
              /\ ExtractedAction = Str("archive") =>
                    /\ pc = "DONE"
                    /\ Len(mut_calls) = 1
                    /\ mut_calls[1].op = "archive"
                    /\ mut_calls[1].message_id = ExtractedId.v
                    /\ state.final_response = ArchivedResponse

C9_Witness ==
    /\ ManagedObject
    /\ extraction.content.obj = [ action |-> Str("archive"), message_id |-> None ]
    /\ Len(dir_calls) = 1 /\ Len(Listed) = 1
    /\ Len(mut_calls) = 1
    /\ mut_calls[1].op = "archive" /\ mut_calls[1].message_id = "m1"
    /\ state.final_response = ArchivedResponse

\* manage_inbox found no message_id in the extraction and the Email Directory
\* gave it no message.
NoIdentifier ==
    /\ ManagedObject
    /\ ExtractedId = None
    /\ Len(dir_calls) = 1
    /\ Listed = <<>>

HasIdentifier ==
    \/ ExtractedId \notin { None, Str("") }
    \/ Len(dir_calls) = 1 /\ Listed # <<>>

\* The label_name manage_inbox extracted (None when the key is absent or null).
ExtractedLabel == get(extraction.content.obj, "label_name", None)

\* C11: with action=label and an identifier to act on, the Email Mutator's
\* label is called once with the extracted label_name, or with "Important"
\* when label_name is absent (key missing or null), and final_response names
\* that label.
C11_LabelDefaultsToImportant ==
    (ManagedObject /\ ExtractedAction = Str("label") /\ HasIdentifier) =>
        LET name == IF ExtractedLabel = None THEN "Important" ELSE ExtractedLabel.v
        IN  /\ pc = "DONE"
            /\ Len(mut_calls) = 1
            /\ mut_calls[1].op = "label"
            /\ mut_calls[1].label = name
            /\ state.final_response = << "I've labeled the email with '", name, "'." >>

NotFoundResponse ==
    <<"I couldn't find relevant information in the knowledge base for that question.">>

\* The handler that ran, once one has.
Handled(h) == Len(nodes) = 2 /\ nodes[2] = h

\* The passages the handler got from its Knowledge Retriever call: none when
\* the tool run printed no JSON or printed the error result.
Retrieved ==
    LET run == rag_calls[1].result
    IN  IF run.returncode = 0 /\ run.stdout.json = "object"
           /\ "results" \in DOMAIN run.stdout.obj
        THEN run.stdout.obj.results
        ELSE <<>>

\* C12: retrieve_info with zero retrieved passages returns the fixed
\* "couldn't find relevant information" response and has made no Completion
\* Engine call.
C12_NoPassageNoCompletion ==
    (Handled("retrieve_info") /\ Retrieved = <<>>) =>
        /\ pc = "DONE"
        /\ state.final_response = NotFoundResponse
        /\ \A i \in 1..Len(llm_calls) : llm_calls[i].site # "retrieve_info"

C12_Witness ==
    /\ Handled("retrieve_info")
    /\ rag_calls[1].result = Printed([ status |-> "success", results |-> <<>> ])
    /\ state.final_response = NotFoundResponse

\* C13 as claimed: a run on a knowledge question for which the retriever
\* returns no passage ends with the fixed response and no Completion Engine
\* call at all in the run.
C13_NoCompletionInRun ==
    (Handled("retrieve_info") /\ Retrieved = <<>>) =>
        /\ pc = "DONE"
        /\ state.final_response = NotFoundResponse
        /\ llm_calls = <<>>

\* C13 as the code has it: such a run ends with the fixed response and
\* exactly one Completion Engine call, the classifier's.
C13_OnlyClassifierCompletion ==
    (Handled("retrieve_info") /\ Retrieved = <<>>) =>
        /\ pc = "DONE"
        /\ state.final_response = NotFoundResponse
        /\ llm_calls = << LLMCall("classify_intent", <<>>) >>

C13_Witness ==
    /\ pc = "DONE"
    /\ state.user_input # <<>>
    /\ state.intent = "RETRIEVE_INFO"
    /\ Retrieved = <<>>
    /\ Len(llm_calls) = 1
    /\ state.final_response = NotFoundResponse

\* A Knowledge Retriever call failed: the tool run died, or it printed the
\* error result.
RetrieverFailed(call) ==
    \/ call.result.returncode # 0
    \/ call.result.stdout.obj.status # "success"

\* C14: a run in which the Knowledge Retriever call of retrieve_info or of
\* draft_email failed ends as a failure of the workflow, not with a normal
\* response.
C14_RetrieverFailurePropagates ==
    ((Handled("retrieve_info") \/ Handled("draft_email"))
        /\ RetrieverFailed(rag_calls[1])) =>
        pc = "FAILED"

\* The Completion Engine calls of the handler that ran.
HandlerCompletions == SubSeq(llm_calls, 2, Len(llm_calls))

\* C15: retrieve_info with one or more retrieved passages makes exactly one
\* Completion Engine call, and when that call returns, final_response is the
\* returned text, unchanged.
C15_AnswerVerbatim ==
    (Handled("retrieve_info") /\ Retrieved # <<>>) =>
        /\ Len(HandlerCompletions) = 1
        /\ HandlerCompletions[1].site = "retrieve_info"
        /\ IF generation.raised
           THEN pc = "FAILED"
           ELSE pc = "DONE" /\ state.final_response = generation.content

C15_Witness ==
    /\ Handled("retrieve_info")
    /\ Len(Retrieved) > 1
    /\ pc = "DONE"
    /\ generation.content = <<" ">>
    /\ state.final_response = <<" ">>

DraftedResponse(T) ==
    <<"I've drafted an email for you:\n\n">> \o T
        \o <<"\n\nWould you like me to send it or make changes?">>

\* C16: draft_email asks the retriever once, for the user's text with limit
\* 3, makes exactly one Completion Engine call whose prompt holds the
\* retrieved passages in the retriever's order, and for a returned text T
\* sets draft = T and final_response = prefix + T + suffix.
C16_DraftFromPassages ==
    Handled("draft_email") =>
        /\ Len(rag_calls) = 1
        /\ rag_calls[1].limit = 3
        /\ rag_calls[1].query = state.user_input
        /\ Len(HandlerCompletions) = 1
        /\ HandlerCompletions[1].site = "draft_email"
        /\ Len(HandlerCompletions[1].context) = Len(Retrieved)
        /\ \A i \in 1..Len(Retrieved) :
              HandlerCompletions[1].context[i] = Retrieved[i].content
        /\ ~generation.raised =>
              /\ pc = "DONE"
              /\ state.draft = generation.content
              /\ state.final_response = DraftedResponse(generation.content)

C16_Witness ==
    /\ Handled("draft_email")
    /\ Len(Retrieved) = 3
    /\ pc = "DONE"
    /\ state.draft # <<>>
    /\ state.final_response = DraftedResponse(state.draft)

\* C17: draft_email with zero retrieved passages makes its one generation
\* call with an empty context, fails only if that call fails, and otherwise
\* ends with draft and final_response set.
C17_DraftWithoutContext ==
    (Handled("draft_email") /\ Retrieved = <<>>) =>
        /\ HandlerCompletions = << LLMCall("draft_email", <<>>) >>
        /\ pc = "FAILED" <=> generation.raised
        /\ ~generation.raised =>
              /\ pc = "DONE"
              /\ state.draft = generation.content
              /\ state.final_response = DraftedResponse(generation.content)

C17_Witness ==
    /\ Handled("draft_email")
    /\ rag_calls[1].result = Printed([ status |-> "success", results |-> <<>> ])
    /\ pc = "DONE"
    /\ state.draft # <<>>
    /\ state.final_response = DraftedResponse(state.draft)

\* C18: a run with intent DRAFT_EMAIL makes no Email Directory call and no
\* Email Mutator call (there is no send operation at all): besides its
\* Completion Engine calls it makes at most one Knowledge Retriever search,
\* and exactly one once the handler has run.
C18_DraftTouchesNoMailbox ==
    (nodes # <<>> /\ state.intent = "DRAFT_EMAIL") =>
        /\ dir_calls = <<>>
        /\ mut_calls = <<>>
        /\ Len(rag_calls) <= 1
        /\ \A i \in 2..Len(nodes) : nodes[i] = "draft_email"
        /\ Len(nodes) = 2 => Len(rag_calls) = 1

C18_Witness ==
    /\ pc = "DONE"
    /\ state.intent = "DRAFT_EMAIL"
    /\ state.draft # <<>>
    /\ Len(rag_calls) = 1
    /\ Len(llm_calls) = 2
    /\ dir_calls = <<>>
    /\ mut_calls = <<>>

UnreadHeader == "Here are your recent unread emails:\n\n"
NoUnreadResponse == <<"You have no unread emails.">>

\* C19: read_email asks the Directory once, for unread messages, at most 5;
\* with no message listed the response is "You have no unread emails."; with
\* N >= 1 listed it is the header, then "From {sender}: {subject}" for each
\* of the first min(N,3) messages in directory order, one per line, and
\* nothing of a later message.
C19_UnreadSummary ==
    Handled("read_email") =>
        /\ pc = "DONE"
        /\ Len(dir_calls) = 1
        /\ dir_calls[1].query = "is:unread"
        /\ dir_calls[1].max_results = 5
        /\ Listed = <<>> => state.final_response = NoUnreadResponse
        /\ Listed # <<>> =>
              LET n == Min(Len(Listed), 3)
                  text == state.final_response
              IN  /\ Len(text) = 5 * n
                  /\ text[1] = UnreadHeader
                  /\ \A i \in 1..n :
                        /\ text[5 * i - 3] = "From "
                        /\ text[5 * i - 2] = Listed[i].from
                        /\ text[5 * i - 1] = ": "
                        /\ text[5 * i] = Listed[i].subject
                        /\ i < n => text[5 * i + 1] = "\n"
                  /\ \A j \in (n + 1)..Len(Listed) : \A k \in 1..Len(text) :
                        text[k] \notin { Listed[j].from, Listed[j].subject }

C19_Witness ==
    /\ Handled("read_email")
    /\ Len(Listed) = 4
    /\ Len(state.final_response) = 15
    /\ state.final_response[15] = Listed[3].subject

\* The empty directory: the other case of C19.
C19_WitnessNone ==
    /\ Handled("read_email")
    /\ dir_calls[1].result = Printed([ status |-> "success", emails |-> <<>> ])
    /\ state.final_response = NoUnreadResponse

\* C20: in every step of a run user_input keeps its value; intent changes
\* only in the classifier's step and never afterwards; final_response is
\* left alone by the classifier and the router and changes only in the step
\* of a branch handler, from its initial empty value; and a run that
\* completes has run exactly one handler after the classifier.
C20_Step ==
    /\ state'.user_input = state.user_input
    /\ state'.intent # state.intent =>
          pc = "START" /\ nodes' = <<"classify_intent">>
    /\ pc \in {"START", "CLASSIFIED"} =>
          state'.final_response = state.final_response
    /\ state'.final_response # state.final_response =>
          /\ pc \in HandlerStates
          /\ state.final_response = <<>>
          /\ nodes' = << "classify_intent", route >>
    /\ pc' = "DONE" =>
          Len(nodes') = 2 /\ nodes'[1] = "classify_intent" /\ nodes'[2] \in Handlers

C20_SingleAssignment == [][C20_Step]_vars

C20_Witness ==
    /\ pc = "DONE"
    /\ state.user_input # <<>>
    /\ state.intent = "MANAGE_INBOX"
    /\ state.final_response = ArchivedResponse
    /\ nodes = << "classify_intent", "manage_inbox" >>

\* C21: draft is written by draft_email only: whenever the intent of a run is
\* not DRAFT_EMAIL, at its end in particular, draft is the empty string.
C21_DraftOnlyByDraftEmail ==
    state.intent # "DRAFT_EMAIL" => state.draft = <<>>

C21_Witness ==
    /\ pc = "DONE"
    /\ state.intent = "RETRIEVE_INFO"
    /\ Retrieved # <<>>
    /\ state.final_response # <<>>
    /\ state.draft = <<>>

\* C26: when the Completion Engine's output is exactly a valid label L, the
\* classifier's step sets intent to L and changes no other field of the state.
C26_Step ==
    (pc = "START" /\ ~reply'.raised
        /\ \E L \in valid_intents : reply'.content = <<L>>) =>
        /\ pc' = "CLASSIFIED"
        /\ state' = [state EXCEPT !.intent = reply'.content[1]]

C26_ClassifierFrame == [][C26_Step]_vars

C26_Witness ==
    /\ nodes = << "classify_intent" >>
    /\ reply.content = << "READ_EMAIL" >>
    /\ state = [initial_state(state.user_input) EXCEPT !.intent = "READ_EMAIL"]
    /\ state.user_input # <<>>

UnknownResponse ==
    <<"I'm not sure how to help with that. Could you rephrase your request?">>

\* C28: handle_unknown makes no external call (the run's only call is the
\* classifier's) and sets final_response to the fixed clarification message,
\* with draft and error left empty.
C28_UnknownFrame ==
    Handled("handle_unknown") =>
        /\ pc = "DONE"
        /\ llm_calls = << LLMCall("classify_intent", <<>>) >>
        /\ rag_calls = <<>>
        /\ dir_calls = <<>>
        /\ mut_calls = <<>>
        /\ state = [initial_state(state.user_input) EXCEPT
                      !.final_response = UnknownResponse]

C28_Witness ==
    /\ Handled("handle_unknown")
    /\ state.user_input # <<>>
    /\ reply.content = << "Hello" >>
    /\ state.final_response = UnknownResponse

(* ------------------------------ termination --------------------------- *)

\* A run whose external calls all return or fail: the graph runner takes the
\* next step whenever there is one.
SpecLive == Init /\ [][Next]_vars /\ WF_vars(Next)

\* C24: every run ends, at DONE or with a propagated failure, and does so
\* within two nodes and with no call repeated: at most two Completion Engine
\* calls and one call to each tool.
C24_Terminates ==
    /\ [](/\ Len(nodes) <= 2
          /\ Len(llm_calls) <= 2
          /\ Len(rag_calls) <= 1
          /\ Len(dir_calls) <= 1
          /\ Len(mut_calls) <= 1)
    /\ <>[](pc \in {"DONE", "FAILED"})

C24_Witness ==
    /\ pc = "DONE"
    /\ nodes = << "classify_intent", "manage_inbox" >>
    /\ Len(llm_calls) = 2
    /\ Len(dir_calls) = 1
    /\ Len(mut_calls) = 1

(* -------------------------- POST /api/text ---------------------------- *)

\* Mutant: every run is handed one and the same state dict.
own_shared(c) == CHOOSE k \in Clients : TRUE

\* The state dict of a run: process_user_input builds one in each call.
own(c) == c

\* The node a run is in.
node_of(c) == CHOOSE h \in Handlers : NodeState[h] = runs[c].pc

\* Mutant: a run takes up the state the last finished run left behind.
TextEndpoint_resumes(c) ==
    /\ runs[c].pc = "IDLE"
    /\ LET text == user_text(runs[c].request)
           left == { d \in Clients : runs[d].pc = "ANSWERED" }
       IN  IF text = <<>>
           THEN runs' = [runs EXCEPT
                           ![c].pc = "ANSWERED",
                           ![c].response = JsonResponse("error", <<"No text provided">>)]
           ELSE runs' = [runs EXCEPT
                           ![own(c)].state =
                               IF left = {}
                               THEN initial_state(text)
                               ELSE [runs[CHOOSE d \in left : TRUE].state
                                        EXCEPT !.user_input = text],
                           ![c].pc = "START"]
    /\ UNCHANGED << workflow, voice >>

\* text_endpoint up to the call of process_user_input, and process_user_input
\* up to agent_workflow.invoke.
TextEndpoint(c) ==
    /\ runs[c].pc = "IDLE"
    /\ LET text == user_text(runs[c].request)
       IN  IF text = <<>>
           THEN runs' = [runs EXCEPT
                           ![c].pc = "ANSWERED",
                           ![c].response = JsonResponse("error", <<"No text provided">>)]
           ELSE runs' = [runs EXCEPT
                           ![own(c)].state = initial_state(text),
                           ![c].pc = "START"]
    /\ UNCHANGED << workflow, voice >>

\* The classifier node of a request's run, in its worker thread.
RunClassifyIntent(c) ==
    /\ runs[c].pc = "START"
    /\ LET res == classify_intent(runs[own(c)].state, runs[c].answers.reply)
       IN  runs' = [runs EXCEPT
                      ![own(c)].state = res.state,
                      ![c].pc = IF res.raised THEN "FAILED" ELSE "CLASSIFIED"]
    /\ UNCHANGED << workflow, voice >>

RunRoute(c) ==
    /\ runs[c].pc = "CLASSIFIED"
    /\ LET key == route_by_intent(runs[own(c)].state)
       IN  runs' = [runs EXCEPT
                      ![c].route = key,
                      ![c].pc = NodeState[conditional_edges[key]]]
    /\ UNCHANGED << workflow, voice >>

\* The selected handler node of a request's run.
RunHandler(c) ==
    /\ runs[c].pc \in HandlerStates
    /\ LET res == run_node(node_of(c), runs[own(c)].state, runs[c].answers)
       IN  runs' = [runs EXCEPT
                      ![own(c)].state = res.state,
                      ![c].pc = IF res.raised THEN "FAILED"
                                ELSE handler_edge(node_of(c))]
    /\ UNCHANGED << workflow, voice >>

\* Mutant: no except clause, the failure of a run goes up to the HTTP layer.
TextEndpointReturns_raises(c) ==
    /\ runs[c].pc \in {"DONE", "FAILED"}
    /\ runs' = [runs EXCEPT
                  ![c].pc = IF runs[c].pc = "DONE" THEN "ANSWERED" ELSE "CRASHED",
                  ![c].response =
                      IF runs[c].pc = "DONE"
                      THEN JsonResponse("response", runs[own(c)].state.final_response)
                      ELSE NoResponse]
    /\ UNCHANGED << workflow, voice >>

\* process_user_input returns result["final_response"] or raises, and
\* text_endpoint answers.
TextEndpointReturns(c) ==
    /\ runs[c].pc \in {"DONE", "FAILED"}
    /\ runs' = [runs EXCEPT
                  ![c].pc = "ANSWERED",
                  ![c].response =
                      IF runs[c].pc = "DONE"
                      THEN JsonResponse("response", runs[own(c)].state.final_response)
                      ELSE JsonResponse("error", CompletionError)]
    /\ UNCHANGED << workflow, voice >>

\* The workflow variables of the single run, at rest.
NoWorkflow ==
    /\ pc = "START"
    /\ state = initial_state(<<>>)
    /\ route = ""
    /\ nodes = <<>>
    /\ reply = LLMFailure
    /\ generation = LLMFailure
    /\ extraction = ExtractionFailure
    /\ llm_calls = <<>>
    /\ rag_calls = <<>>
    /\ dir_calls = <<>>
    /\ mut_calls = <<>>

InitText ==
    /\ NoWorkflow
    /\ NoVoice
    /\ runs \in [ Clients -> PendingRequests ]

NextText ==
    \/ \E c \in Clients : TextEndpoint(c)
    \/ \E c \in Clients : RunClassifyIntent(c)
    \/ \E c \in Clients : RunRoute(c)
    \/ \E c \in Clients : RunHandler(c)
    \/ \E c \in Clients : TextEndpointReturns(c)

\* Requests at POST /api/text, their runs interleaved in any order.
SpecText == InitText /\ [][NextText]_vars

\* What the run of a request produces when it is run alone, against the
\* answers that request gets.
Alone(c) == invoke(initial_state(user_text(runs[c].request)), runs[c].answers)


\* C22: under every interleaving of the runs of concurrent requests, a run
\* that completes leaves the state, final_response included, that it leaves
\* when run alone against the same answers, and a run fails only if it fails
\* alone; a step of one run changes nothing of another.
C22_Inv ==
    \A c \in Clients :
        /\ runs[c].pc = "DONE" => ~Alone(c).raised /\ runs[c].state = Alone(c).state
        /\ runs[c].pc = "FAILED" => Alone(c).raised
        /\ runs[c].response.k = "response" =>
              runs[c].response.text = Alone(c).state.final_response

C22_Step ==
    \A c, d \in Clients : (runs'[c] # runs[c] /\ d # c) => runs'[d] = runs[d]

C22_RunsIsolated == []C22_Inv /\ [][C22_Step]_vars

C22_Witness ==
    /\ runs["c1"].pc = "DONE"
    /\ runs["c1"].state.final_response = ArchivedResponse
    /\ runs["c2"].pc = "RETRIEVING"
    /\ runs["c2"].state.intent = "RETRIEVE_INFO"

\* C23: a run starts from a fresh state, whatever earlier runs have left
\* (nothing of their intent, draft, error or final_response is in it), and
\* two runs on the same input against the same answers end with the same
\* response.
C23_Step ==
    \A c \in Clients :
        /\ (runs[c].pc = "IDLE" /\ runs'[c].pc = "START") =>
              runs'[c].state = initial_state(user_text(runs[c].request))
        /\ \A d \in Clients :
              (/\ runs'[c].pc = "ANSWERED" /\ runs'[d].pc = "ANSWERED"
               /\ runs'[c].request = runs'[d].request
               /\ runs'[c].answers = runs'[d].answers) =>
                  runs'[c].response = runs'[d].response

C23_SameResponseTwice == [][C23_Step]_vars

C23_Witness ==
    /\ \A c \in Clients :
          /\ runs[c].pc = "ANSWERED"
          /\ runs[c].answers = Answer("DRAFT_EMAIL")
          /\ runs[c].state.draft # <<>>
          /\ runs[c].response = JsonResponse("response", DraftedResponse(<<"Hello">>))

\* C25: a request at POST /api/text is answered with {"response": text} or
\* {"error": text}: a missing, null or empty "text" with the error "No text
\* provided" and no run of the workflow, a run that completes with its
\* final_response, and a run that fails with the error's text; no failure
\* reaches the HTTP layer.
C25_TextEndpointAnswers ==
    \A c \in Clients :
        /\ runs[c].pc # "CRASHED"
        /\ user_text(runs[c].request) = <<>> =>
              /\ runs[c].pc \in {"IDLE", "ANSWERED"}
              /\ runs[c].state = initial_state(<<>>)
              /\ runs[c].pc = "ANSWERED" =>
                    runs[c].response = JsonResponse("error", <<"No text provided">>)
        /\ (runs[c].pc = "ANSWERED" /\ user_text(runs[c].request) # <<>>) =>
              runs[c].response =
                  IF Alone(c).raised
                  THEN JsonResponse("error", CompletionError)
                  ELSE JsonResponse("response", Alone(c).state.final_response)

C25_Witness ==
    /\ runs["c1"].pc = "ANSWERED"
    /\ runs["c1"].request.text = NullText
    /\ runs["c1"].response = JsonResponse("error", <<"No text provided">>)
    /\ runs["c2"].pc = "ANSWERED"
    /\ runs["c2"].answers.generation.raised
    /\ runs["c2"].response = JsonResponse("error", CompletionError)

(* ------------------- tools/voice_cli.py and /ws/voice ----------------- *)

\* transcribe_audio: the words in the file, or the error result.
transcribe_audio(file, fault) ==
    IF fault = "provider" \/ ~file.exists
    THEN [ status |-> "error", message |-> "recognize failed" ]
    ELSE [ status |-> "success", text |-> file.content.says ]

\* python tools/voice_cli.py transcribe --file path
voice_cli_transcribe(file, fault) ==
    IF fault = "crash" THEN Crashed ELSE Printed(transcribe_audio(file, fault))

\* synthesize_speech: the output file after the command, written only when
\* the provider call went well.
synthesize_speech(text, files, fault) ==
    IF fault = "none"
    THEN [files EXCEPT !.agent_response = File(text)]
    ELSE files

\* python tools/voice_cli.py speak --text t --output path: the error result
\* is printed with exit code 0 as well.
voice_cli_speak(text, fault) ==
    IF fault = "crash"
    THEN Crashed
    ELSE Printed([ status |-> IF fault = "none" THEN "success" ELSE "error" ])

\* Mutant: the tool is run on the file as it was, the frame written after.
transcribe_audio_stream_late(audio_data, files, fault) ==
    LET result == voice_cli_transcribe(files.user_audio, fault)
        written == [files EXCEPT !.user_audio = File(audio_data)]
    IN  IF result.returncode = 0
        THEN [ raised |-> FALSE, value |-> get(result.stdout.obj, "text", <<>>),
               files |-> written ]
        ELSE [ raised |-> TRUE, value |-> TranscriptionFailed, files |-> written ]

\* transcribe_audio_stream: the frame is written to /tmp/user_audio.wav and
\* the tool run on that file, with no await in between.
transcribe_audio_stream(audio_data, files, fault) ==
    LET written == [files EXCEPT !.user_audio = File(audio_data)]
        result == voice_cli_transcribe(written.user_audio, fault)
    IN  IF result.returncode = 0
        THEN [ raised |-> FALSE, value |-> get(result.stdout.obj, "text", <<>>),
               files |-> written ]
        ELSE [ raised |-> TRUE, value |-> TranscriptionFailed, files |-> written ]

\* synthesize_speech_stream: the tool is run and, on exit code 0, whatever
\* /tmp/agent_response.mp3 holds is read.
synthesize_speech_stream(text, files, fault) ==
    LET result == voice_cli_speak(text, fault)
        spoken == IF fault = "crash" THEN files ELSE synthesize_speech(text, files, fault)
    IN  IF result.returncode = 0
        THEN IF spoken.agent_response.exists
             THEN [ raised |-> FALSE, value |-> spoken.agent_response.content,
                    files |-> spoken ]
             ELSE [ raised |-> TRUE, value |-> FileNotFoundError, files |-> spoken ]
        ELSE [ raised |-> TRUE, value |-> SynthesisFailed, files |-> spoken ]

\* The session goes on in its frame, or back to receive_bytes after an error
\* message or the audio.
Goes(s, at, msgs) == [ws[s] EXCEPT !.at = at, !.sent = ws[s].sent \o msgs]
Ends(s, msgs) == Waiting(ws[s].sent \o msgs)

\* receive_bytes and the acknowledgement.
Receive(s) ==
    /\ ws[s].at = "RECEIVE"
    /\ \E audio_data \in AudioFrames(s) :
          ws' = [ws EXCEPT ![s] = [Waiting(<< Acknowledgement >>) EXCEPT
                                      !.at = "TRANSCRIBE", !.audio = audio_data]]
    /\ UNCHANGED << workflow, runs, tmp >>

\* Step 1 of the loop body, with the message that follows it.
Transcribe(s) ==
    /\ ws[s].at = "TRANSCRIBE"
    /\ \E fault \in Faults :
          LET res == transcribe_audio_stream(ws[s].audio, tmp, fault)
          IN  /\ tmp' = res.files
              /\ ws' = [ws EXCEPT ![s] =
                          IF res.raised
                          THEN Ends(s, << ProcessingError(res.value) >>)
                          ELSE IF res.value = <<>>
                          THEN Ends(s, << Error(<<"Could not transcribe audio">>) >>)
                          ELSE [Goes(s, "PROCESS", << Transcription(res.value) >>)
                                  EXCEPT !.user_text = res.value]]
    /\ UNCHANGED << workflow, runs >>

\* Step 2: process_user_input in a worker thread, and the message after it.
Process(s) ==
    /\ ws[s].at = "PROCESS"
    /\ \E a \in Answers :
          LET res == invoke(initial_state(ws[s].user_text), a)
          IN  ws' = [ws EXCEPT ![s] =
                        IF res.raised
                        THEN Ends(s, << ProcessingError(CompletionError) >>)
                        ELSE [Goes(s, "SPEAK", << ResponseText(res.state.final_response) >>)
                                EXCEPT !.response_text = res.state.final_response]]
    /\ UNCHANGED << workflow, runs, tmp >>

\* Mutant: the audio is sent before the "complete" message.
Synthesize_bytes_first(s) ==
    /\ ws[s].at = "SPEAK"
    /\ \E fault \in Faults :
          LET res == synthesize_speech_stream(ws[s].response_text, tmp, fault)
          IN  /\ tmp' = res.files
              /\ ws' = [ws EXCEPT ![s] =
                          IF res.raised
                          THEN Ends(s, << ProcessingError(res.value) >>)
                          ELSE Ends(s, << Bytes(res.value), Complete >>)]
    /\ UNCHANGED << workflow, runs >>

\* Steps 3 and 4: the speech, "complete" and the audio.
Synthesize(s) ==
    /\ ws[s].at = "SPEAK"
    /\ \E fault \in Faults :
          LET res == synthesize_speech_stream(ws[s].response_text, tmp, fault)
          IN  /\ tmp' = res.files
              /\ ws' = [ws EXCEPT ![s] =
                          IF res.raised
                          THEN Ends(s, << ProcessingError(res.value) >>)
                          ELSE Ends(s, << Complete, Bytes(res.value) >>)]
    /\ UNCHANGED << workflow, runs >>

InitVoice == NoWorkflow /\ NoRequests /\ NoVoice

NextVoice ==
    \/ \E s \in Sessions : Receive(s)
    \/ \E s \in Sessions : Transcribe(s)
    \/ \E s \in Sessions : Process(s)
    \/ \E s \in Sessions : Synthesize(s)

\* The sessions at /ws/voice, each handling frame after frame, interleaved
\* at the awaits of the loop body.
SpecVoice == InitVoice /\ [][NextVoice]_vars

\* The i-th message of a frame that goes well.
Fits(m, i) ==
    CASE i = 1 -> m = Acknowledgement
      [] i = 2 -> m = Transcription(m.body) /\ m.body # <<>>
      [] i = 3 -> m = ResponseText(m.body)
      [] i = 4 -> m = Complete
      [] i = 5 -> m = Bytes(m.body)
      [] OTHER -> FALSE

\* Audio goes out only directly after "complete", and the workflow is given
\* no empty transcription.
AudioAfterComplete(s) ==
    /\ \A i \in 1..Len(ws[s].sent) :
          ws[s].sent[i].type = "bytes" => i > 1 /\ ws[s].sent[i - 1] = Complete
    /\ ws[s].at = "PROCESS" => ws[s].user_text # <<>>
    /\ \A i \in 1..Len(ws[s].sent) :
          ws[s].sent[i].field = "response_text" =>
              i > 1 /\ ws[s].sent[i - 1].field = "transcription"
                    /\ ws[s].sent[i - 1].body # <<>>

\* C27 as claimed: the messages of a frame are the acknowledgement and then
\* either one "error" message or the transcription, the response text,
\* "complete" and the audio.
C27_ErrorOrAll ==
    \A s \in Sessions :
        LET sent == ws[s].sent
        IN  /\ AudioAfterComplete(s)
            /\ (ws[s].at = "RECEIVE" /\ sent # <<>>) =>
                  /\ sent[1] = Acknowledgement
                  /\ \/ Len(sent) = 2 /\ sent[2].status = "error"
                     \/ Len(sent) = 5 /\ \A i \in 2..5 : Fits(sent[i], i)

\* C27 as the code has it: the messages of a frame are, in this order, the
\* acknowledgement, the transcription, the response text, "complete" and the
\* audio, cut short by one "error" message, the frame's last, wherever a step
\* fails: after the acknowledgement, after the transcription or after the
\* response text.
C27_ErrorEndsFrame ==
    \A s \in Sessions :
        LET sent == ws[s].sent
            n == Len(sent)
        IN  /\ AudioAfterComplete(s)
            /\ n <= 5
            /\ \A i \in 1..n :
                  \/ Fits(sent[i], i)
                  \/ i = n /\ i \in 2..4 /\ sent[i].status = "error"
            /\ ws[s].at # "RECEIVE" => n >= 1 /\ sent[n].status # "error"
            /\ (ws[s].at = "RECEIVE" /\ n > 0) => n = 5 \/ sent[n].status = "error"

C27_Witness ==
    /\ ws["s1"] = Waiting(<< Acknowledgement, Transcription(Says["s1"]),
                             ProcessingError(CompletionError) >>)
    /\ ws["s2"].at = "RECEIVE"
    /\ Len(ws["s2"].sent) = 5
    /\ ws["s2"].sent[5] = Bytes(ws["s2"].sent[3].body)

\* C29: the audio a session sends for a frame is the speech of that frame's
\* response_text.
C29_AudioOfThisFrame ==
    \A s \in Sessions : \A i \in 1..Len(ws[s].sent) :
        ws[s].sent[i].type = "bytes" =>
            \E j \in 1..(i - 1) :
                /\ ws[s].sent[j].field = "response_text"
                /\ ws[s].sent[i].body = ws[s].sent[j].body

\* C30: the text a session hands to the workflow for a frame, and reports as
\* its transcription, is what that session's own frame says, whatever the
\* other sessions have since written to /tmp/user_audio.wav.
C30_OwnTranscription ==
    \A s \in Sessions :
        /\ ws[s].at \in {"PROCESS", "SPEAK"} =>
              /\ ws[s].audio.by = s
              /\ ws[s].user_text = ws[s].audio.says
              /\ ws[s].sent[2] = Transcription(ws[s].audio.says)
        /\ \A i \in 1..Len(ws[s].sent) :
              ws[s].sent[i].field = "transcription" => ws[s].sent[i].body = Says[s]

C30_Witness ==
    /\ ws["s1"].at = "PROCESS"
    /\ ws["s1"].user_text = Says["s1"]
    /\ ws["s2"].at = "PROCESS"
    /\ ws["s2"].user_text = Says["s2"]
    /\ tmp.user_audio = File(Audio("s2", Says["s2"]))

\* The Email Mutator is called by a manage_inbox run only, for the action it
\* extracted, label or archive, and once.
MutatorOnlyOnRequest ==
    mut_calls # <<>> =>
        /\ state.intent = "MANAGE_INBOX"
        /\ ManagedObject
        /\ ExtractedAction \in { Str("label"), Str("archive") }
        /\ Len(mut_calls) = 1
        /\ mut_calls[1].op = ExtractedAction.v

\* manage_inbox decoded an object whose action is neither label nor archive.
OtherAction == ManagedObject /\ ExtractedAction \notin { Str("label"), Str("archive") }

\* C31 as claimed: the Email Mutator is called only for an extracted label
\* or archive in a MANAGE_INBOX run, at most once; for any other action the
\* run ends with the "not sure" response and no Mutator call.
C31_OtherActionNotSure ==
    /\ MutatorOnlyOnRequest
    /\ OtherAction =>
          /\ mut_calls = <<>>
          /\ pc = "DONE"
          /\ state.final_response = NotSureResponse

\* C31 as the code has it: the same, except that with no message_id the
\* Directory is asked before the action is looked at, and a Directory run
\* that prints no JSON ends the run with the failure response instead.
C31_OtherActionNoMutation ==
    /\ MutatorOnlyOnRequest
    /\ OtherAction =>
          /\ mut_calls = <<>>
          /\ pc = "DONE"
          /\ state.final_response =
                IF Len(dir_calls) = 1 /\ dir_calls[1].result.stdout.json # "object"
                THEN FailureResponse
                ELSE NotSureResponse

C31_Witness ==
    /\ OtherAction
    /\ ExtractedAction = Str("delete")
    /\ ExtractedId = Str("m7")
    /\ mut_calls = <<>>
    /\ state.final_response = NotSureResponse

\* C32: the first Completion Engine call of a run is the classifier's, and
\* the handler that ran adds its own: draft_email one, manage_inbox one,
\* retrieve_info one exactly when a passage was retrieved, read_email and
\* handle_unknown none; no run makes more than two.
C32_CompletionCalls ==
    /\ Len(llm_calls) <= 2
    /\ nodes # <<>> => llm_calls # <<>> /\ llm_calls[1] = LLMCall("classify_intent", <<>>)
    /\ Len(nodes) = 1 => Len(llm_calls) = 1
    /\ \A h \in Handlers :
          Handled(h) =>
              /\ \A i \in 1..Len(HandlerCompletions) : HandlerCompletions[i].site = h
              /\ Len(HandlerCompletions) =
                    CASE h = "draft_email" -> 1
                      [] h = "manage_inbox" -> 1
                      [] h = "retrieve_info" -> IF Retrieved # <<>> THEN 1 ELSE 0
                      [] h = "read_email" -> 0
                      [] h = "handle_unknown" -> 0

C32_Witness ==
    /\ pc = "DONE"
    /\ Handled("read_email")
    /\ Listed # <<>>
    /\ llm_calls = << LLMCall("classify_intent", <<>>) >>

\* C33: at the end of a run error is non-empty exactly when manage_inbox ran
\* and answered with the failure response; every other ending has an empty
\* error.
C33_ErrorOnlyWithFailure ==
    pc \in {"DONE", "FAILED"} =>
        (state.error # <<>> <=>
            (Handled("manage_inbox") /\ state.final_response = FailureResponse))

C33_Witness ==
    /\ pc = "DONE"
    /\ Handled("manage_inbox")
    /\ state.error = TypeError
    /\ state.final_response = FailureResponse

\* C34: read_email answers "You have no unread emails." only after a
\* Directory call that succeeded and listed no message.
C34_EmptyInboxOnlyWhenEmpty ==
    (Handled("read_email") /\ state.final_response = NoUnreadResponse) =>
        dir_calls[1].result = Printed([ status |-> "success", emails |-> <<>> ])

\* Exactly one of the messages is an "error" message, and it is the last.
OneError(sent) ==
    /\ sent # <<>>
    /\ \A i \in 1..Len(sent) : sent[i].status = "error" <=> i = Len(sent)

\* C35: a step of a frame that fails (the transcription, the workflow, or the
\* speech synthesis, which has failed for certain when the file does not
\* hold the speech of this frame's response) ends the frame with exactly one
\* "error" message and the session back at receive_bytes; the workflow is
\* invoked at most once in a frame.
C35_Step ==
    \A s \in Sessions :
        /\ (ws[s].at \in {"TRANSCRIBE", "PROCESS"} /\ ws'[s].at = "RECEIVE") =>
              OneError(ws'[s].sent)
        /\ (/\ ws[s].at = "SPEAK" /\ ws'[s].at = "RECEIVE"
            /\ tmp'.agent_response # File(ws[s].response_text)) =>
              OneError(ws'[s].sent)
        /\ ws'[s].at \in {"RECEIVE", "TRANSCRIBE", "PROCESS", "SPEAK"}
        /\ ws[s].at = "PROCESS" =>
              \A i \in 1..Len(ws[s].sent) : ws[s].sent[i].field # "response_text"
        /\ \A i, j \in 1..Len(ws'[s].sent) :
              (/\ ws'[s].sent[i].field = "response_text"
               /\ ws'[s].sent[j].field = "response_text") => i = j

C35_OneErrorPerFailedFrame == [][C35_Step]_vars

====
